---- MODULE Spec2Model ----
(***************************************************************************)
(* f2m (src/bin/f2m.rs): fragments to matrix.  The model follows fcount:   *)
(* peak_intervals builds the feature index and writes the feature labels,  *)
(* the cell file is read into the cell table, a decompression thread sends *)
(* the fragment lines over an unbounded channel to the counting loop on    *)
(* the main thread, the thread is joined, and write_matrix_market writes   *)
(* the sparse counts.                                                      *)
(*                                                                         *)
(* A text line is the tuple of its tab-separated fields.  A numeric field  *)
(* is the integer its text denotes; a field whose text is not an unsigned  *)
(* 32-bit literal is an integer outside 0..U32Max, so that parsing can     *)
(* fail.  TLC's integers are narrower than a u32, so the u32 range is      *)
(* scaled down to 0..U32Max with U32Max a bound of the model.  A map       *)
(* (FxHashMap) is a function on its key set.  The Vec peak_cell_counts has *)
(* total_peaks rows; the model keeps the rows that hold an entry, every    *)
(* other row of 0..total_peaks-1 is the empty map.                         *)
(* Failures of the output files and of the region and cell files are not   *)
(* modelled; the failure of the decompression thread is.                   *)
(***************************************************************************)
EXTENDS Integers, Sequences, FiniteSets, TLC

VARIABLES
    group,              \* the --group flag
    pc,                 \* position of the main thread
    index,              \* peak_intervals: enumerate() index of the next line
    bed_line,           \* peak_intervals: the line of the current iteration
    chromosome_trees,   \* peak_intervals: chromosome -> Vec<Interval>
    peak_group_index,   \* peak_intervals: group name -> feature id
    total_peaks,        \* peak_intervals: running total, then the returned total
    current_index,      \* peak_intervals: next group feature id
    features,           \* lines written to features.tsv.gz
    peaks,              \* fcount: chromosome -> Lapper (the returned lapper_map)
    cell_index,         \* fcount: enumerate() index of the next cell line
    cells,              \* fcount: barcode -> column index
    peak_cell_counts,   \* fcount: row -> (column -> count)
    prod,               \* position of the decompression thread
    frag_read,          \* lines the decompression thread has read from the file
    chan,               \* the mpsc channel: lines sent and not yet received
    processed,          \* lines the counting loop has received
    check_end,          \* fcount: the local check_end
    header,             \* write_matrix_market: the dimension line written
    w_index,            \* write_matrix_market: enumerate() index of the next row
    output,             \* write_matrix_market: the string buffer, as entry lines
    written             \* entry lines handed to the encoder

vars == <<group, pc, index, bed_line, chromosome_trees, peak_group_index,
          total_peaks, current_index, features, peaks, cell_index, cells,
          peak_cell_counts, prod, frag_read, chan, processed, check_end,
          header, w_index, output, written>>

\* ---------------------------------------------------------------- bounds

MaxBedLines == 2
MaxCellLines == 2
MaxFragLines == 2
\* u32::MAX, scaled down
U32Max == 7

\* ------------------------------------------------------------- constants

FlushEvery == 5000

\* ---------------------------------------------------------------- inputs

NotANumber == -1
TooLarge == U32Max + 1

\* Lines of the region file: fewer than three fields, an unparseable start,
\* an unparseable end, three fields, four fields.
BedLines ==
    { <<"chr1", 0>>,
      <<"chr1", NotANumber, 2>>,
      <<"chr1", 0, TooLarge>>,
      <<"chr1", 0, 2>>, <<"chr1", 2, 4>>, <<"chr1", 0, 4>>,
      <<"chr1", 0, 2, "g1">>, <<"chr1", 2, 4, "g1">>, <<"chr1", 0, 4, "g2">> }

\* Lines of the cell file.
CellLines == {"A", "B"}

\* Lines of the fragment file: a comment, a line of three fields, unparseable
\* coordinates on an indexed and on an unindexed chromosome, a barcode that
\* is in no cell file, and fragments (contained, ending on a region's end,
\* spanning, end before start, at the top of the u32 range).
FragLines ==
    { <<"#chr1", 1, 2, "A">>,
      <<"chr1", 1, 2>>,
      <<"chr1", NotANumber, 2, "A">>,
      <<"chr1", 1, TooLarge, "A">>,
      <<"chr2", NotANumber, 2, "A">>,
      <<"chr1", 1, 2, "C">>,
      <<"chr1", 1, 1, "A">>, <<"chr1", 1, 2, "A">>, <<"chr1", 1, 3, "A">>,
      <<"chr1", 3, 1, "A">>, <<"chr1", 1, 2, "B">>,
      <<"chr1", U32Max, U32Max, "A">> }

\* --------------------------------------------------------------- helpers

EmptyMap == <<>>
NoLine == <<>>

Put(m, k, v) == [x \in DOMAIN m \cup {k} |-> IF x = k THEN v ELSE m[x]]

\* Fault: a field that does not parse is taken as 0 (unwrap_or_default).
ParseU32Lenient(f) ==
    [ok |-> TRUE, val |-> IF f >= 0 /\ f <= U32Max THEN f ELSE 0]

\* str::parse::<u32>
ParseU32(f) ==
    IF f >= 0 /\ f <= U32Max THEN [ok |-> TRUE, val |-> f]
                             ELSE [ok |-> FALSE, val |-> 0]

\* x + 1 on a u32: with overflow checks the addition panics at U32Max, without
\* them it wraps; the build decides.
AddOne(x) ==
    IF x < U32Max THEN {[ok |-> TRUE, val |-> x + 1]}
                  ELSE {[ok |-> FALSE, val |-> 0], [ok |-> TRUE, val |-> 0]}

\* ------------------------------------------------------- peak_intervals

\* "{}-{}-{}" of chromosome, start, end; a group's label is its name.
RegionLabel(chromosome, start, end) == <<chromosome, start, end>>
GroupLabel(peakgroup) == <<peakgroup>>

Intervals(trees, chromosome) ==
    IF chromosome \in DOMAIN trees THEN trees[chromosome] ELSE <<>>

\* The loop's variables before the first line.
PeakStart ==
    [index |-> 0, chromosome_trees |-> EmptyMap, peak_group_index |-> EmptyMap,
     total_peaks |-> 0, current_index |-> 0, features |-> <<>>]

\* The body of the loop over the region file's lines, on the loop's variables.
PeakStep(st, grouped, line) ==
    LET fields == line
        start == ParseU32(fields[2])
        end == ParseU32(fields[3])
        next == [st EXCEPT !.index = st.index + 1]
    IN
    IF Len(fields) < 3 \/ ~start.ok \/ ~end.ok THEN next
    ELSE
      LET chromosome == fields[1]
          intervals == Intervals(st.chromosome_trees, chromosome)
      IN
      IF grouped /\ Len(fields) >= 4
      THEN
        LET peakgroup == fields[4]
            seen == peakgroup \in DOMAIN st.peak_group_index
            group_index == IF seen THEN st.peak_group_index[peakgroup]
                                   ELSE st.current_index
        IN [next EXCEPT
              !.peak_group_index = Put(st.peak_group_index, peakgroup, group_index),
              !.features = IF seen THEN st.features
                                   ELSE Append(st.features, GroupLabel(peakgroup)),
              !.current_index = IF seen THEN st.current_index
                                        ELSE st.current_index + 1,
              !.chromosome_trees =
                  Put(st.chromosome_trees, chromosome,
                      Append(intervals, [start |-> start.val, stop |-> end.val,
                                         val |-> group_index])),
              !.total_peaks = st.total_peaks + 1]
      ELSE [next EXCEPT
              !.chromosome_trees =
                  Put(st.chromosome_trees, chromosome,
                      Append(intervals, [start |-> start.val, stop |-> end.val,
                                         val |-> st.index])),
              !.features = Append(st.features,
                                  RegionLabel(chromosome, start.val, end.val)),
              !.total_peaks = st.total_peaks + 1]

\* The total peak_intervals returns.
PeakTotal(st, grouped) == IF grouped THEN st.current_index ELSE st.total_peaks

\* One iteration of the loop over the region file's lines.
PeakLine ==
    /\ pc = "peaks"
    /\ index < MaxBedLines
    /\ \E line \in BedLines :
        LET st == PeakStep([index |-> index,
                            chromosome_trees |-> chromosome_trees,
                            peak_group_index |-> peak_group_index,
                            total_peaks |-> total_peaks,
                            current_index |-> current_index,
                            features |-> features], group, line)
        IN
        /\ bed_line' = line
        /\ index' = st.index
        /\ chromosome_trees' = st.chromosome_trees
        /\ peak_group_index' = st.peak_group_index
        /\ total_peaks' = st.total_peaks
        /\ current_index' = st.current_index
        /\ features' = st.features
    /\ UNCHANGED <<group, pc, peaks, cell_index, cells, peak_cell_counts, prod,
                   frag_read, chan, processed, check_end, header, w_index,
                   output, written>>

\* The end of the region file (or a read error, which breaks the loop): the
\* intervals become the lapper map and the total is returned.
PeakFinish ==
    /\ pc = "peaks"
    /\ peaks' = chromosome_trees
    /\ chromosome_trees' = EmptyMap
    /\ bed_line' = NoLine
    /\ total_peaks' = PeakTotal([current_index |-> current_index,
                                 total_peaks |-> total_peaks], group)
    /\ pc' = "cells"
    /\ UNCHANGED <<group, index, peak_group_index, current_index, features,
                   cell_index, cells, peak_cell_counts, prod, frag_read, chan,
                   processed, check_end, header, w_index, output, written>>

\* peak_intervals run over a whole region file.
RECURSIVE PeakRun(_, _, _)
PeakRun(st, grouped, lines) ==
    IF lines = <<>> THEN st
    ELSE PeakRun(PeakStep(st, grouped, Head(lines)), grouped, Tail(lines))

\* ---------------------------------------------------------- cell table

\* The body of the loop over the cell file's lines.
CellStep(table, line) ==
    [index |-> table.index + 1, cells |-> Put(table.cells, line, table.index)]

\* One iteration of the loop over the cell file's lines.
CellLine ==
    /\ pc = "cells"
    /\ cell_index < MaxCellLines
    /\ \E line \in CellLines :
        LET table == CellStep([index |-> cell_index, cells |-> cells], line)
        IN cells' = table.cells /\ cell_index' = table.index
    /\ UNCHANGED <<group, pc, index, bed_line, chromosome_trees, peak_group_index,
                   total_peaks, current_index, features, peaks, peak_cell_counts,
                   prod, frag_read, chan, processed, check_end, header, w_index,
                   output, written>>

\* The cell table loop run over a whole cell file.
RECURSIVE CellRun(_, _)
CellRun(table, lines) ==
    IF lines = <<>> THEN table
    ELSE CellRun(CellStep(table, Head(lines)), Tail(lines))

\* The end of the cell file: the counts are allocated, the channel is created
\* and the decompression thread is spawned.
CellsDone ==
    /\ pc = "cells"
    /\ peak_cell_counts' = EmptyMap
    /\ chan' = <<>>
    /\ prod' = "spawned"
    /\ pc' = "count"
    /\ UNCHANGED <<group, index, bed_line, chromosome_trees, peak_group_index,
                   total_peaks, current_index, features, peaks, cell_index, cells,
                   frag_read, processed, check_end, header, w_index, output,
                   written>>

\* ------------------------------------------------ decompression thread

\* File::open and the decoder's construction succeed.
ProdOpen ==
    /\ prod = "spawned"
    /\ prod' = "reading"
    /\ UNCHANGED <<group, pc, index, bed_line, chromosome_trees, peak_group_index,
                   total_peaks, current_index, features, peaks, cell_index, cells,
                   peak_cell_counts, frag_read, chan, processed, check_end,
                   header, w_index, output, written>>

\* Whether the receiver still exists: the counting loop owns it, and an early
\* return or a panic of the main thread drops it.
ReceiverAlive == pc = "count"

\* The thread reads the next line and sends it; a send to a dropped receiver
\* fails and the thread leaves its loop.
ProdSend ==
    /\ prod = "reading"
    /\ Len(frag_read) < MaxFragLines
    /\ \E line \in FragLines :
        /\ frag_read' = Append(frag_read, line)
        /\ IF ReceiverAlive
           THEN chan' = Append(chan, line) /\ prod' = prod
           ELSE chan' = chan /\ prod' = "exited"
    /\ UNCHANGED <<group, pc, index, bed_line, chromosome_trees, peak_group_index,
                   total_peaks, current_index, features, peaks, cell_index, cells,
                   peak_cell_counts, processed, check_end, header, w_index,
                   output, written>>

\* The end of the fragment file: the thread returns and its sender is dropped.
ProdEOF ==
    /\ prod = "reading"
    /\ prod' = "exited"
    /\ UNCHANGED <<group, pc, index, bed_line, chromosome_trees, peak_group_index,
                   total_peaks, current_index, features, peaks, cell_index, cells,
                   peak_cell_counts, frag_read, chan, processed, check_end,
                   header, w_index, output, written>>

\* File::open fails, or a read or decompression error: expect() panics, the
\* thread unwinds and its sender is dropped.
ProdFail ==
    /\ prod \in {"spawned", "reading"}
    /\ prod' = "panicked"
    /\ UNCHANGED <<group, pc, index, bed_line, chromosome_trees, peak_group_index,
                   total_peaks, current_index, features, peaks, cell_index, cells,
                   peak_cell_counts, frag_read, chan, processed, check_end,
                   header, w_index, output, written>>

\* ------------------------------------------------------ overlap counter

StartsWithHash(line) == line[1] \in {"#chr1"}

Row(counts, row) == IF row \in DOMAIN counts THEN counts[row] ELSE EmptyMap

Count(counts, row, col) ==
    IF col \in DOMAIN Row(counts, row) THEN Row(counts, row)[col] ELSE 0

\* *peak_cell_counts[row].entry(col).or_insert(0) += 1
Incr(counts, row, col) ==
    Put(counts, row, Put(Row(counts, row), col, Count(counts, row, col) + 1))

\* Interval::overlap, as Lapper::find filters with it.
Overlap(iv, start, stop) == iv.start < stop /\ iv.stop > start

\* find_overlaps for a chromosome of the map: the (val, stop) pairs of the
\* intervals overlapping [start, stop), in every order the query may return.
FindOverlaps(lapper_map, chromosome, start, stop) ==
    LET ivs == lapper_map[chromosome]
        hit == {i \in 1..Len(ivs) : Overlap(ivs[i], start, stop)}
        n == Cardinality(hit)
        orders == {f \in [1..n -> hit] : \A a, b \in 1..n : f[a] = f[b] => a = b}
    IN {[j \in 1..n |-> [val |-> ivs[f[j]].val, stop |-> ivs[f[j]].stop]] : f \in orders}

\* Fault: the loop is left at the first feature that contains the fragment.
RECURSIVE StartHitsBreak(_, _, _, _, _)
StartHitsBreak(olap_start, counts, ce, cell_index_, endpos) ==
    IF olap_start = <<>> THEN [ok |-> TRUE, counts |-> counts, check_end |-> ce]
    ELSE LET peak_index == Head(olap_start).val
             peak_end == Head(olap_start).stop
             once == Incr(counts, peak_index, cell_index_)
         IN IF peak_index >= total_peaks
            THEN [ok |-> FALSE, counts |-> counts, check_end |-> ce]
            ELSE IF endpos < peak_end
                 THEN [ok |-> TRUE, counts |-> Incr(once, peak_index, cell_index_),
                       check_end |-> FALSE]
                 ELSE StartHitsBreak(Tail(olap_start), once, ce, cell_index_, endpos)

\* The loop over the start-anchored query's result; indexing past the Vec's
\* end panics (ok = FALSE).
RECURSIVE StartHits(_, _, _, _, _)
StartHits(olap_start, counts, ce, cell_index_, endpos) ==
    IF olap_start = <<>> THEN [ok |-> TRUE, counts |-> counts, check_end |-> ce]
    ELSE LET peak_index == Head(olap_start).val
             peak_end == Head(olap_start).stop
             once == Incr(counts, peak_index, cell_index_)
         IN IF peak_index >= total_peaks
            THEN [ok |-> FALSE, counts |-> counts, check_end |-> ce]
            ELSE IF endpos < peak_end
                 THEN StartHits(Tail(olap_start), Incr(once, peak_index, cell_index_),
                                FALSE, cell_index_, endpos)
                 ELSE StartHits(Tail(olap_start), once, ce, cell_index_, endpos)

\* The loop over the end-anchored query's result.
RECURSIVE EndHits(_, _, _)
EndHits(olap_end, counts, cell_index_) ==
    IF olap_end = <<>> THEN [ok |-> TRUE, counts |-> counts]
    ELSE LET peak_index == Head(olap_end).val
         IN IF peak_index >= total_peaks
            THEN [ok |-> FALSE, counts |-> counts]
            ELSE EndHits(Tail(olap_end), Incr(counts, peak_index, cell_index_),
                         cell_index_)

Outcome(to, counts, ce) == [pc |-> to, counts |-> counts, check_end |-> ce]

\* The end-anchored part of one fragment (taken when check_end is still true).
EndQuery(seqname, endpos, cell_index_, counts) ==
    UNION { IF ~stop.ok
            THEN {Outcome("panic", counts, TRUE)}
            ELSE { LET r == EndHits(olap_end, counts, cell_index_)
                   IN Outcome(IF r.ok THEN "count" ELSE "panic", r.counts, TRUE)
                   : olap_end \in FindOverlaps(peaks, seqname, endpos, stop.val) }
          : stop \in AddOne(endpos) }

\* The two queries of one admitted fragment on an indexed chromosome.
CountFragment(seqname, startpos, endpos, cell_index_, counts) ==
    UNION { IF ~stop.ok
            THEN {Outcome("panic", counts, TRUE)}
            ELSE UNION { LET r == StartHits(olap_start, counts, TRUE, cell_index_,
                                            endpos)
                         IN IF ~r.ok THEN {Outcome("panic", r.counts, r.check_end)}
                            ELSE IF r.check_end
                                 THEN EndQuery(seqname, endpos, cell_index_, r.counts)
                                 ELSE {Outcome("count", r.counts, FALSE)}
                         : olap_start \in FindOverlaps(peaks, seqname, startpos,
                                                       stop.val) }
          : stop \in AddOne(startpos) }

\* The body of the counting loop for one received line: the outcomes it can
\* have.  fields[3] of a line of fewer than four fields panics; a coordinate
\* that does not parse returns Err from fcount.
ProcessLine(line, counts, ce) ==
    IF StartsWithHash(line) THEN {Outcome("count", counts, ce)}
    ELSE IF Len(line) < 4 THEN {Outcome("panic", counts, ce)}
    ELSE IF line[4] \notin DOMAIN cells THEN {Outcome("count", counts, ce)}
    ELSE IF line[1] \notin DOMAIN peaks THEN {Outcome("count", counts, TRUE)}
    ELSE IF ~ParseU32(line[2]).ok \/ ~ParseU32(line[3]).ok
         THEN {Outcome("err", counts, TRUE)}
    ELSE CountFragment(line[1], ParseU32(line[2]).val, ParseU32(line[3]).val,
                       cells[line[4]], counts)

\* The channel hands over its oldest line.
RecvLine(queue) == Head(queue)
RecvRest(queue) == Tail(queue)

\* One iteration of `for line in rx`.
Recv ==
    /\ pc = "count"
    /\ chan # <<>>
    /\ chan' = RecvRest(chan)
    /\ processed' = Append(processed, RecvLine(chan))
    /\ \E r \in ProcessLine(RecvLine(chan), peak_cell_counts, check_end) :
        /\ pc' = r.pc
        /\ peak_cell_counts' = r.counts
        /\ check_end' = r.check_end
    /\ UNCHANGED <<group, index, bed_line, chromosome_trees, peak_group_index,
                   total_peaks, current_index, features, peaks, cell_index, cells,
                   prod, frag_read, header, w_index, output, written>>

\* Fault: the loop ends as soon as the channel is empty (try_recv).
DisconnectedEarly(queue, producer) == queue = <<>>

\* recv() fails, ending the loop, when the channel is empty and the sender
\* has been dropped.
Disconnected(queue, producer) ==
    queue = <<>> /\ producer \in {"exited", "panicked"}

RecvEnd ==
    /\ pc = "count"
    /\ Disconnected(chan, prod)
    /\ pc' = "join"
    /\ UNCHANGED <<group, index, bed_line, chromosome_trees, peak_group_index,
                   total_peaks, current_index, features, peaks, cell_index, cells,
                   peak_cell_counts, prod, frag_read, chan, processed, check_end,
                   header, w_index, output, written>>

\* Fault: the result of join() is dropped.
JoinedIgnoring(producer) == "write"

\* decompress_handle.join().expect(...): a panicked thread panics the main
\* thread, otherwise the matrix is written next.
Joined(producer) == IF producer = "panicked" THEN "panic" ELSE "write"

Join ==
    /\ pc = "join"
    /\ prod \in {"exited", "panicked"}
    /\ pc' = Joined(prod)
    /\ UNCHANGED <<group, index, bed_line, chromosome_trees, peak_group_index,
                   total_peaks, current_index, features, peaks, cell_index, cells,
                   peak_cell_counts, prod, frag_read, chan, processed, check_end,
                   header, w_index, output, written>>

\* -------------------------------------------------- write_matrix_market

\* peak_cell_counts.iter().map(|map| map.len()).sum()
RECURSIVE SumLen(_, _)
SumLen(counts, rows) ==
    IF rows = {} THEN 0
    ELSE LET row == CHOOSE r \in rows : TRUE
         IN Cardinality(DOMAIN counts[row]) + SumLen(counts, rows \ {row})

Nonzero(counts) == SumLen(counts, DOMAIN counts)

\* "{} {} {}\n" of index + 1, key + 1, value
EntryLine(row, key, value) == <<row + 1, key + 1, value>>

\* The entry lines of one row, in every order the map's iterator may take.
RowLines(counts, row) ==
    LET hashmap == Row(counts, row)
        keys == DOMAIN hashmap
        n == Cardinality(keys)
        orders == {f \in [1..n -> keys] : \A a, b \in 1..n : f[a] = f[b] => a = b}
    IN {[j \in 1..n |-> EntryLine(row, f[j], hashmap[f[j]])] : f \in orders}

\* The dimension line is written.
WriteStart ==
    /\ pc = "write"
    /\ header' = <<total_peaks, Cardinality(DOMAIN cells), Nonzero(peak_cell_counts)>>
    /\ output' = <<>>
    /\ w_index' = 0
    /\ pc' = "rows"
    /\ UNCHANGED <<group, index, bed_line, chromosome_trees, peak_group_index,
                   total_peaks, current_index, features, peaks, cell_index, cells,
                   peak_cell_counts, prod, frag_read, chan, processed, check_end,
                   written>>

\* Fault: the chunk is written and the buffer is not cleared.
FlushChunkNoClear(row, encoded, buffer) ==
    IF row % FlushEvery = 0
    THEN [written |-> encoded \o buffer, output |-> buffer]
    ELSE [written |-> encoded, output |-> buffer]

\* "write chunk, clear string" after a row: the encoder's lines and the buffer.
FlushChunk(row, encoded, buffer) ==
    IF row % FlushEvery = 0
    THEN [written |-> encoded \o buffer, output |-> <<>>]
    ELSE [written |-> encoded, output |-> buffer]

\* One iteration of the loop over the rows.
WriteRow ==
    /\ pc = "rows"
    /\ w_index < total_peaks
    /\ \E lines \in RowLines(peak_cell_counts, w_index) :
        LET r == FlushChunk(w_index, written, output \o lines)
        IN written' = r.written /\ output' = r.output
    /\ w_index' = w_index + 1
    /\ UNCHANGED <<group, pc, index, bed_line, chromosome_trees, peak_group_index,
                   total_peaks, current_index, features, peaks, cell_index, cells,
                   peak_cell_counts, prod, frag_read, chan, processed, check_end,
                   header>>

\* The remaining buffer is written and the encoder finished.
WriteFinish ==
    /\ pc = "rows"
    /\ w_index = total_peaks
    /\ written' = IF output # <<>> THEN written \o output ELSE written
    /\ pc' = "copy"
    /\ UNCHANGED <<group, index, bed_line, chromosome_trees, peak_group_index,
                   total_peaks, current_index, features, peaks, cell_index, cells,
                   peak_cell_counts, prod, frag_read, chan, processed, check_end,
                   header, w_index, output>>

\* write_cells copies the cell file; fcount returns Ok.
WriteCells ==
    /\ pc = "copy"
    /\ pc' = "done"
    /\ UNCHANGED <<group, index, bed_line, chromosome_trees, peak_group_index,
                   total_peaks, current_index, features, peaks, cell_index, cells,
                   peak_cell_counts, prod, frag_read, chan, processed, check_end,
                   header, w_index, output, written>>

\* ------------------------------------------------------- specifications

Init ==
    /\ group \in BOOLEAN
    /\ pc = "peaks"
    /\ index = 0
    /\ bed_line = NoLine
    /\ chromosome_trees = EmptyMap
    /\ peak_group_index = EmptyMap
    /\ total_peaks = 0
    /\ current_index = 0
    /\ features = <<>>
    /\ peaks = EmptyMap
    /\ cell_index = 0
    /\ cells = EmptyMap
    /\ peak_cell_counts = EmptyMap
    /\ prod = "none"
    /\ frag_read = <<>>
    /\ chan = <<>>
    /\ processed = <<>>
    /\ check_end = FALSE
    /\ header = <<>>
    /\ w_index = 0
    /\ output = <<>>
    /\ written = <<>>

\* States in which write_matrix_market is entered after a run over a region
\* file of more than FlushEvery lines: the counts hold entries in the first
\* row and in rows around FlushEvery.
LargeRows == {0, FlushEvery - 1, FlushEvery, FlushEvery + 1}
LargeRowMaps == {(0 :> 1), (0 :> 1) @@ (1 :> 2)}

InitLarge ==
    /\ group = FALSE
    /\ pc = "write"
    /\ index \in {FlushEvery, FlushEvery + 1, FlushEvery + 2}
    /\ total_peaks = index
    /\ bed_line = NoLine
    /\ chromosome_trees = EmptyMap
    /\ peak_group_index = EmptyMap
    /\ current_index = 0
    /\ features = <<>>
    /\ peaks = EmptyMap
    /\ cell_index = 2
    /\ cells = ("A" :> 0) @@ ("B" :> 1)
    /\ \E rows \in SUBSET {r \in LargeRows : r < index} :
         peak_cell_counts \in [rows -> LargeRowMaps]
    /\ prod = "exited"
    /\ frag_read = <<>>
    /\ chan = <<>>
    /\ processed = <<>>
    /\ check_end = FALSE
    /\ header = <<>>
    /\ w_index = 0
    /\ output = <<>>
    /\ written = <<>>

Next ==
    \/ PeakLine
    \/ PeakFinish
    \/ CellLine
    \/ CellsDone
    \/ ProdOpen
    \/ ProdSend
    \/ ProdEOF
    \/ ProdFail
    \/ Recv
    \/ RecvEnd
    \/ Join
    \/ WriteStart
    \/ WriteRow
    \/ WriteFinish
    \/ WriteCells

Spec == Init /\ [][Next]_vars

\* The inputs of the runs followed from the start of the counting phase: the
\* --group flag, the region file and the cell file.  Regions that are
\* adjacent, regions that overlap, a skipped first line, two overlapping
\* regions of one group with a duplicated cell identifier, a grouped file
\* with a line of three fields, and an empty region file.
CountInputs ==
    { [group |-> FALSE, bed |-> << <<"chr1", 0, 2>>, <<"chr1", 2, 4>> >>,
       cell_file |-> <<"A", "B">>],
      [group |-> FALSE, bed |-> << <<"chr1", 0, 2>>, <<"chr1", 0, 4>> >>,
       cell_file |-> <<"A", "B">>],
      [group |-> FALSE, bed |-> << <<"chr1", 0>>, <<"chr1", 0, 4>> >>,
       cell_file |-> <<"A">>],
      [group |-> TRUE, bed |-> << <<"chr1", 0, 2, "g1">>, <<"chr1", 0, 4, "g1">> >>,
       cell_file |-> <<"A", "A">>],
      [group |-> TRUE, bed |-> << <<"chr1", 0, 4, "g2">>, <<"chr1", 0, 2>> >>,
       cell_file |-> <<"B">>],
      [group |-> FALSE, bed |-> << >>, cell_file |-> <<"A">>] }

\* The state in which the counting phase is entered on one of CountInputs:
\* peak_intervals has returned, the cell table is read, the thread is spawned.
InitCount ==
    \E in \in CountInputs :
        LET st == PeakRun(PeakStart, in.group, in.bed)
            table == CellRun([index |-> 0, cells |-> EmptyMap], in.cell_file)
        IN
        /\ group = in.group
        /\ pc = "count"
        /\ index = st.index
        /\ bed_line = NoLine
        /\ chromosome_trees = EmptyMap
        /\ peak_group_index = st.peak_group_index
        /\ current_index = st.current_index
        /\ total_peaks = PeakTotal(st, in.group)
        /\ features = st.features
        /\ peaks = st.chromosome_trees
        /\ cell_index = table.index
        /\ cells = table.cells
        /\ peak_cell_counts = EmptyMap
        /\ prod = "spawned"
        /\ frag_read = <<>>
        /\ chan = <<>>
        /\ processed = <<>>
        /\ check_end = FALSE
        /\ header = <<>>
        /\ w_index = 0
        /\ output = <<>>
        /\ written = <<>>

NextCount ==
    \/ ProdOpen
    \/ ProdSend
    \/ ProdEOF
    \/ ProdFail
    \/ Recv
    \/ RecvEnd
    \/ Join
    \/ WriteStart
    \/ WriteRow
    \/ WriteFinish
    \/ WriteCells

\* The run from the start of the counting phase.
SpecCount == InitCount /\ [][NextCount]_vars

\* The same, and the runs that enter the writer with more than FlushEvery rows.
SpecLarge == (InitCount \/ InitLarge) /\ [][NextCount]_vars

\* The run from the start of the counting phase with the main thread
\* scheduled: it receives while a line is queued, leaves the loop when the
\* channel is disconnected, and returns from join once the decompression
\* thread has ended.
SpecFair ==
    /\ InitCount
    /\ [][NextCount]_vars
    /\ WF_vars(Recv) /\ WF_vars(RecvEnd) /\ WF_vars(Join)

\* --------------------------------------------------------------- claims

NotU32(f) == f < 0 \/ f > U32Max
Last(seq) == seq[Len(seq)]
InPoint(iv, p) == iv.start <= p /\ p < iv.stop
Ids(ivs) == {ivs[i].val : i \in 1..Len(ivs)}
Columns == {cells[b] : b \in DOMAIN cells}

\* A received line the counter admits: not a comment, a barcode of the cell
\* table, a chromosome of the index, start and end that parse.
Admitted(line) ==
    /\ ~StartsWithHash(line)
    /\ Len(line) >= 4
    /\ line[4] \in DOMAIN cells
    /\ line[1] \in DOMAIN peaks
    /\ ~NotU32(line[2])
    /\ ~NotU32(line[3])

\* The counting loop has just processed an admitted line.
CountedStep ==
    /\ pc = "count"
    /\ Len(processed') = Len(processed) + 1
    /\ Admitted(Last(processed'))

NonOverlapping(ivs) ==
    \A i, j \in 1..Len(ivs) :
        i < j => ~(ivs[i].start < ivs[j].stop /\ ivs[j].start < ivs[i].stop)

\* The counts after the step are the counts before it plus add[f] in the
\* fragment's column, for the features f of ids.
AddedIs(add(_), ids, col) ==
    \A f \in ids \cup DOMAIN peak_cell_counts \cup DOMAIN peak_cell_counts' :
        \A c \in Columns :
            Count(peak_cell_counts', f, c) =
                Count(peak_cell_counts, f, c)
                + (IF c = col /\ f \in ids THEN add(f) ELSE 0)

\* C1: with pairwise non-overlapping regions, every admitted fragment the
\* counter completes adds, to each feature, the number of the fragment's
\* endpoints inside a region of that feature (start as [start,start+1), end
\* as [end,end+1)), whatever the order of start and end.
C1_EndpointCount ==
    [][ (CountedStep /\ pc' = "count"
         /\ NonOverlapping(peaks[Last(processed')[1]]))
        => LET line == Last(processed')
               ivs == peaks[line[1]]
               Ref(f) ==
                   Cardinality({i \in 1..Len(ivs) :
                                   ivs[i].val = f /\ InPoint(ivs[i], line[2])})
                   + Cardinality({i \in 1..Len(ivs) :
                                   ivs[i].val = f /\ InPoint(ivs[i], line[3])})
           IN AddedIs(Ref, Ids(ivs), cells[line[4]]) ]_vars

\* The labels a feature id may carry: in ungrouped mode the label of a region
\* with that id, in grouped mode the name of the group with that id.
LabelsOf(k) ==
    IF group
    THEN {GroupLabel(g) : g \in {h \in DOMAIN peak_group_index :
                                    peak_group_index[h] = k}}
    ELSE UNION { {RegionLabel(chr, peaks[chr][i].start, peaks[chr][i].stop) :
                    i \in {j \in 1..Len(peaks[chr]) : peaks[chr][j].val = k}}
                 : chr \in DOMAIN peaks }

\* C2: when peak_intervals has returned, the k-th label line (0-based) is the
\* label of the feature with id k, every indexed feature has its label line,
\* and the number of label lines is the returned total.
C2_LabelsInIdOrder ==
    pc # "peaks" =>
        /\ Len(features) = total_peaks
        /\ \A k \in 0..(Len(features) - 1) : features[k + 1] \in LabelsOf(k)
        /\ \A chr \in DOMAIN peaks : \A i \in 1..Len(peaks[chr]) :
               peaks[chr][i].val < Len(features)

\* C3: in grouped mode an iteration over a line of three fields with valid
\* start and end adds no interval, writes no label, assigns no feature id and
\* leaves the group names unchanged.
C3_GroupedSkipsUngroupedLine ==
    [][ (pc = "peaks" /\ group /\ index' = index + 1 /\ Len(bed_line') = 3
         /\ ~NotU32(bed_line'[2]) /\ ~NotU32(bed_line'[3]))
        => /\ \A chr \in DOMAIN chromosome_trees' :
                  Intervals(chromosome_trees', chr) = Intervals(chromosome_trees, chr)
           /\ features' = features
           /\ peak_group_index' = peak_group_index
           /\ current_index' = current_index ]_vars

\* C4: once the cell file is read, the cell table maps its identifiers onto
\* 0..N-1 with N its number of entries (the writer's ncol), and every entry
\* line of the matrix has a column in 1..ncol.
C4_CellColumnsDense ==
    pc \notin {"peaks", "cells"} =>
        /\ Columns = 0..(Cardinality(DOMAIN cells) - 1)
        /\ \A i \in 1..Len(written \o output) :
               (written \o output)[i][2] \in 1..Cardinality(DOMAIN cells)

\* A processed line that is no comment, carries a barcode of the cell table
\* and has a start or end that is no unsigned 32-bit literal.
BadCoordinates(line) ==
    /\ ~StartsWithHash(line)
    /\ Len(line) >= 4
    /\ line[4] \in DOMAIN cells
    /\ (NotU32(line[2]) \/ NotU32(line[3]))

WriterNotInvoked ==
    /\ header = <<>>
    /\ written = <<>>
    /\ pc \notin {"write", "rows", "copy", "done"}

Positive == {rc \in (DOMAIN peak_cell_counts) \X Columns :
                Count(peak_cell_counts, rc[1], rc[2]) >= 1}

C7_DecoderFailureHalts ==
    /\ [](prod = "panicked" => WriterNotInvoked)
    /\ (prod = "panicked" ~> pc \in {"panic", "err"})

C7_Witness ==
    /\ prod = "panicked"
    /\ pc = "panic"
    /\ Len(processed) = 2
    /\ processed = frag_read
    /\ peak_cell_counts # EmptyMap

\* The counts after the lines of a file are processed one after the other.
RECURSIVE Sequential(_, _, _)
Sequential(lines, counts, ce) ==
    IF lines = <<>> THEN counts
    ELSE LET done == {r \in ProcessLine(Head(lines), counts, ce) : r.pc = "count"}
             r == CHOOSE x \in done : TRUE
         IN Sequential(Tail(lines), r.counts, r.check_end)

NoFailure == prod # "panicked" /\ pc \notin {"err", "panic"}

\* C8: without a failure, the lines read are the lines processed followed by
\* the lines in the channel, in order; when the writer is invoked the thread
\* has exited, the channel is empty, every line read has been processed and
\* the counts are those of processing the file's lines in order.
C8_OrderedAndDrained ==
    /\ NoFailure => frag_read = processed \o chan
    /\ pc \in {"write", "rows", "copy", "done"} =>
           /\ prod = "exited"
           /\ chan = <<>>
           /\ processed = frag_read
           /\ peak_cell_counts = Sequential(frag_read, EmptyMap, FALSE)

C8_Witness ==
    /\ pc = "done"
    /\ Len(frag_read) = 2
    /\ frag_read[1] # frag_read[2]
    /\ Cardinality(DOMAIN peak_cell_counts) = 2

\* C9: when peak_intervals has returned, every feature id of the index is
\* below the returned total, the length of the counts array.
C9_FeatureIdsInRange ==
    pc # "peaks" =>
        \A chr \in DOMAIN peaks : \A i \in 1..Len(peaks[chr]) :
            peaks[chr][i].val < total_peaks

\* C10: for an admitted fragment and any set of features, whatever the order
\* of the start-anchored query's result: every interval overlapping
\* [start,start+1) adds 1 to its feature and 1 more when end is before its
\* end, the end-anchored query is made iff no such interval has end before
\* its end, and then every interval overlapping [end,end+1) adds 1.  The
\* step panics only by an index past the counts array or by start+1 or end+1
\* overflowing.
C10_OrderIndependent ==
    [][ CountedStep
        => LET line == Last(processed')
               ivs == peaks[line[1]]
               startpos == line[2]
               endpos == line[3]
               atStart == {i \in 1..Len(ivs) : InPoint(ivs[i], startpos)}
               atEnd == {i \in 1..Len(ivs) : InPoint(ivs[i], endpos)}
               fast == {i \in atStart : endpos < ivs[i].stop}
               queried == IF fast = {} THEN atStart \cup atEnd ELSE atStart
               outside == \E i \in queried : ivs[i].val >= total_peaks
               Add(f) ==
                   Cardinality({i \in atStart : ivs[i].val = f})
                   + Cardinality({i \in fast : ivs[i].val = f})
                   + (IF fast = {} THEN Cardinality({i \in atEnd : ivs[i].val = f})
                                   ELSE 0)
           IN IF pc' = "count"
              THEN /\ ~outside
                   /\ check_end' = (fast = {})
                   /\ AddedIs(Add, Ids(ivs), cells[line[4]])
              ELSE /\ pc' = "panic"
                   /\ outside \/ startpos = U32Max \/ endpos = U32Max ]_vars

C10_Witness ==
    /\ pc = "count"
    /\ ~group
    /\ processed = << <<"chr1", 1, 1, "A">> >>
    /\ "A" \in DOMAIN cells
    /\ Count(peak_cell_counts, 0, cells["A"]) = 2
    /\ Count(peak_cell_counts, 1, cells["A"]) = 2
    /\ ~check_end
====
